---- MODULE Spec2Model ----
(***************************************************************************)
(* ServiceVerified: canonicalization, signing, signature verification,     *)
(* the file-backed DID resolution registry with its LRU cache, and the     *)
(* six-axis credential verifier.                                           *)
(*                                                                         *)
(* JavaScript values are tagged records; an object keeps its keys in       *)
(* insertion order as a sequence of <<key, value>> pairs.                  *)
(***************************************************************************)
EXTENDS Integers, Sequences, FiniteSets, TLC

(* ------------------------------ bounds --------------------------------- *)
MaxTime == 1
MaxLog == 3
CacheCap == 1
MaxEdits == 1
MaxVerifyLog == 1
MaxReaders == 1
MaxStale == 2
MaxChain == 3

(* --------------------------- JavaScript values ------------------------- *)
Undef == [t |-> "undefined"]
Null == [t |-> "null"]
NaN == [t |-> "nan"]
Str(s) == [t |-> "string", s |-> s]
Arr(a) == [t |-> "array", a |-> a]
Obj(kv) == [t |-> "object", kv |-> kv]

\* truthiness of a value, as `if (v)`, `!!v` and `&&` see it
Truthy(v) ==
  CASE v.t = "undefined" -> FALSE
    [] v.t = "null" -> FALSE
    [] v.t = "nan" -> FALSE
    [] v.t = "string" -> v.s # ""
    [] OTHER -> TRUE

\* typeof v === 'object' (true of null, arrays and plain objects)
TypeofObject(v) == v.t \in {"null", "array", "object"}

HasKey(o, k) == \E i \in 1..Len(o.kv) : o.kv[i][1] = k

\* the property names of the model that are canonical array indices ("2",
\* "10"), in ascending numeric order
IndexKeys == << "2", "10" >>
IsIndexKey(k) == \E i \in 1..Len(IndexKeys) : IndexKeys[i] = k

\* the array-index properties among kv, from IndexKeys[i] on, in numeric order
RECURSIVE IndexPairs(_, _)
IndexPairs(kv, i) ==
  IF i > Len(IndexKeys) THEN << >>
  ELSE SelectSeq(kv, LAMBDA p : p[1] = IndexKeys[i]) \o IndexPairs(kv, i + 1)

\* the order in which an object enumerates its own properties: array indices
\* in ascending numeric order, then the other names in order of creation
OwnPropertyOrder(kv) ==
  IndexPairs(kv, 1) \o SelectSeq(kv, LAMBDA p : ~IsIndexKey(p[1]))

\* o[k]; a property of undefined/null or a missing key reads as undefined
\* where the code uses optional chaining or the value is an object
Get(o, k) ==
  IF o.t = "object" /\ HasKey(o, k)
  THEN o.kv[CHOOSE i \in 1..Len(o.kv) : o.kv[i][1] = k][2]
  ELSE Undef

\* { ...o, [k]: v } : an existing key keeps its position, a new key goes last
Set(o, k, v) ==
  IF HasKey(o, k)
  THEN Obj([i \in 1..Len(o.kv) |-> IF o.kv[i][1] = k THEN <<k, v>> ELSE o.kv[i]])
  ELSE Obj(OwnPropertyOrder(Append(o.kv, <<k, v>>)))

\* const { [k]: _, ...rest } = o
Without(o, k) == Obj(SelectSeq(o.kv, LAMBDA p : p[1] # k))

(* ------------------- lib/crypto/canonicalize.ts ------------------------ *)
\* the property names of the model, in the order Array.prototype.sort()
\* (UTF-16 code units) puts them
SortedKeys ==
  << "10", "2", "algorithm", "created", "created_at", "credentialHash", "did",
     "evidence", "expires_at", "id", "payload", "publicKey", "schema_version",
     "scope", "signature", "source", "status", "type", "updated_at",
     "verification", "verificationMethod", "version" >>

KeyRank(k) == CHOOSE i \in 1..Len(SortedKeys) : SortedKeys[i] = k

RECURSIVE InsertByKey(_, _)
InsertByKey(p, s) ==
  IF s = << >> THEN << p >>
  ELSE IF KeyRank(p[1]) < KeyRank(Head(s)[1]) THEN << p >> \o s
  ELSE << Head(s) >> \o InsertByKey(p, Tail(s))

RECURSIVE SortPairs(_)
SortPairs(s) ==
  IF s = << >> THEN << >> ELSE InsertByKey(Head(s), SortPairs(Tail(s)))

RECURSIVE sortKeysDeep(_)
sortKeysDeep(obj) ==
  IF obj.t = "array"
  THEN Arr([i \in 1..Len(obj.a) |-> sortKeysDeep(obj.a[i])])
  ELSE IF obj.t = "object"
  THEN Obj(OwnPropertyOrder(
             SortPairs([i \in 1..Len(obj.kv) |->
                          << obj.kv[i][1], sortKeysDeep(obj.kv[i][2]) >>])))
  ELSE obj

\* JSON.stringify without indentation: a property whose value is undefined
\* is left out, NaN is written as null, an undefined array element as null
\* (the "undefined" case below is the array element: a credential is an object)
RECURSIVE JSONstringify(_)
RECURSIVE JoinMembers(_, _)
RECURSIVE JoinElements(_, _)
JSONstringify(v) ==
  CASE v.t = "null" -> "null"
    [] v.t = "nan" -> "null"
    [] v.t = "undefined" -> "null"
    [] v.t = "string" -> "\"" \o v.s \o "\""
    [] v.t = "array" -> "[" \o JoinElements(v.a, TRUE) \o "]"
    [] v.t = "object" -> "{" \o JoinMembers(v.kv, TRUE) \o "}"

JoinMembers(kv, first) ==
  IF kv = << >> THEN ""
  ELSE IF Head(kv)[2].t = "undefined" THEN JoinMembers(Tail(kv), first)
  ELSE (IF first THEN "" ELSE ",") \o "\"" \o Head(kv)[1] \o "\":"
       \o JSONstringify(Head(kv)[2]) \o JoinMembers(Tail(kv), FALSE)

JoinElements(a, first) ==
  IF a = << >> THEN ""
  ELSE (IF first THEN "" ELSE ",") \o JSONstringify(Head(a))
       \o JoinElements(Tail(a), FALSE)

\* canonicalizeCredential serializing the credential as given, envelope included
canonicalizeCredential_keepsEnvelope(credential) ==
  JSONstringify(sortKeysDeep(credential))

canonicalizeCredential(credential) ==
  JSONstringify(sortKeysDeep(Without(credential, "verification")))

(* --------------------------- Ed25519, SHA-256 -------------------------- *)
\* key pairs: private key k matches public key k
KeyIds == {1, 2}

\* the key pair the issuer signs with in the verifier's runs
IssuerKey == CHOOSE k \in KeyIds : \A j \in KeyIds : k <= j

\* an unforgeable, deterministic signature: the bytes name the message and
\* the key that made them, and verify accepts exactly those bytes
edSign(message, privateKey) == "ed25519[" \o ToString(privateKey) \o "]" \o message
edVerify(signature, message, publicKey) == signature = edSign(message, publicKey)

\* collision-free digest
sha256hex(s) == "sha256:" \o s

(* --------------------------- lib/did/parse.ts -------------------------- *)
RECURSIVE Concat(_)
Concat(cs) == IF cs = << >> THEN "" ELSE Head(cs) \o Concat(Tail(cs))

PREFIX_CHARS ==
  << "d","i","d",":","t","w",":","s","e","r","v","i","c","e","v","e","r",
     "i","f","i","e","d",":" >>
PREFIX == Concat(PREFIX_CHARS)

UuidAChars ==
  << "5","5","0","e","8","4","0","0","-","e","2","9","b","-","4","1","d","4",
     "-","a","7","1","6","-","4","4","6","6","5","5","4","4","0","0","0","0" >>
UuidBChars ==
  << "a","1","b","2","c","3","d","4","-","e","5","f","6","-","4","7","8","9",
     "-","a","0","1","2","-","3","4","5","6","7","8","9","a","b","c","d","e" >>
\* a version-1 UUID: the version digit is not 4
UuidV1Chars ==
  << "5","5","0","e","8","4","0","0","-","e","2","9","b","-","1","1","d","4",
     "-","a","7","1","6","-","4","4","6","6","5","5","4","4","0","0","0","0" >>

\* the same UUID as UuidAChars in upper case
UuidUpperChars ==
  << "5","5","0","E","8","4","0","0","-","E","2","9","B","-","4","1","D","4",
     "-","A","7","1","6","-","4","4","6","6","5","5","4","4","0","0","0","0" >>
\* version 4 with a variant digit outside 8, 9, a, b
UuidVariantChars ==
  << "5","5","0","e","8","4","0","0","-","e","2","9","b","-","4","1","d","4",
     "-","c","7","1","6","-","4","4","6","6","5","5","4","4","0","0","0","0" >>

DidBases ==
  { PREFIX_CHARS \o UuidAChars,
    PREFIX_CHARS \o UuidBChars,
    PREFIX_CHARS \o UuidV1Chars,
    PREFIX_CHARS \o UuidUpperChars,
    PREFIX_CHARS \o UuidVariantChars,
    << "d","i","d",":","e","x","a","m","p","l","e",":","1","2","3" >>,
    << >> }

\* what a caller's string may carry before and after the DID
PadsBefore == { << >>, << " " >>, << "\n" >> }
PadsAfter == { << >>, << " " >>, << "\t" >>, << "x" >> }

\* the character strings the model's DID inputs are made of
DidCharInputs ==
  { pre \o base \o post : pre \in PadsBefore, base \in DidBases, post \in PadsAfter }

DidA == Concat(PREFIX_CHARS \o UuidAChars)
DidB == Concat(PREFIX_CHARS \o UuidBChars)
DidV1 == Concat(PREFIX_CHARS \o UuidV1Chars)
DidOther == "did:example:123"

\* the characters of a string
StringOf == [cs \in DidCharInputs |-> Concat(cs)]
CharsOf(s) == CHOOSE cs \in DidCharInputs : StringOf[cs] = s

Whitespace == {" ", "\t", "\n", "\r"}
HexDigit ==
  { "0","1","2","3","4","5","6","7","8","9",
    "a","b","c","d","e","f","A","B","C","D","E","F" }

RECURSIVE TrimLeft(_)
TrimLeft(cs) ==
  IF cs # << >> /\ Head(cs) \in Whitespace THEN TrimLeft(Tail(cs)) ELSE cs

RECURSIVE TrimRight(_)
TrimRight(cs) ==
  IF cs # << >> /\ cs[Len(cs)] \in Whitespace
  THEN TrimRight(SubSeq(cs, 1, Len(cs) - 1)) ELSE cs

Trim(cs) == TrimRight(TrimLeft(cs))

StartsWith(cs, pre) ==
  Len(cs) >= Len(pre) /\ SubSeq(cs, 1, Len(pre)) = pre

\* /^[0-9a-f]{8}-[0-9a-f]{4}-4[0-9a-f]{3}-[89ab][0-9a-f]{3}-[0-9a-f]{12}$/i
UUID_REGEX_test(cs) ==
  /\ Len(cs) = 36
  /\ \A i \in 1..36 :
       CASE i \in {9, 14, 19, 24} -> cs[i] = "-"
         [] i = 15 -> cs[i] = "4"
         [] i = 20 -> cs[i] \in {"8", "9", "a", "b", "A", "B"}
         [] OTHER -> cs[i] \in HexDigit

\* parseDid after `const trimmed = did.trim()`: no throw (TRUE) or throw (FALSE)
parseTrimmed(trimmed) ==
  /\ StartsWith(trimmed, PREFIX_CHARS)
  /\ UUID_REGEX_test(SubSeq(trimmed, Len(PREFIX_CHARS) + 1, Len(trimmed)))

\* !did.trim()
TrimsToEmpty(did) == Trim(CharsOf(did.s)) = << >>

\* parseDid returns normally (TRUE) or throws (FALSE)
parseDidOk(did) ==
  IF did.t # "string" \/ TrimsToEmpty(did)
  THEN FALSE
  ELSE parseTrimmed(Trim(CharsOf(did.s)))

isValidDid(value) ==
  IF value.t # "string" \/ TrimsToEmpty(value)
  THEN FALSE
  ELSE parseDidOk(value)

(* ------------------------------- dates --------------------------------- *)
\* new Date(t).toISOString() for the model's clock values
Iso(n) == "2026-01-01T00:00:0" \o ToString(n) \o ".000Z"

\* new Date(v).getTime(): the clock value of an ISO string, NaN otherwise
DateParse(v) ==
  IF v.t = "string" /\ \E n \in 0..(MaxTime + 1) : Iso(n) = v.s
  THEN [valid |-> TRUE, ms |-> CHOOSE n \in 0..(MaxTime + 1) : Iso(n) = v.s]
  ELSE [valid |-> FALSE, ms |-> 0]

\* `${v}` for the values a template string is given here
TemplateString(v) ==
  CASE v.t = "string" -> v.s
    [] v.t = "undefined" -> "undefined"
    [] v.t = "null" -> "null"
    [] v.t = "nan" -> "NaN"
    [] OTHER -> "[object Object]"

(* --------------------- credentials given to the library ---------------- *)
Statuses == {"pending", "approved", "rejected", "expired", "revoked"}

\* CredentialBuilder.build(): the record and the order of its keys
MkCredential(did, status, expires, evidence) ==
  Obj(<< <<"schema_version", Str("1.0")>>,
         <<"did", did>>,
         <<"id", Str("id")>>,
         <<"status", Str(status)>>,
         <<"source", Str("servicepath.compliance.iso27001")>>,
         <<"created_at", Str(Iso(0))>>,
         <<"updated_at", Str(Iso(0))>>,
         <<"evidence", evidence>> >>
      \o (IF Truthy(expires) THEN << <<"expires_at", expires>> >> ELSE << >>))

MkEvidence(type, payload) == Obj(<< <<"type", type>>, <<"payload", payload>> >>)

GoodEvidence ==
  MkEvidence(Str("iso27001_attestation"), Obj(<< <<"scope", Str("ISMS")>> >>))

ScopeValues == {Str("ISMS"), Str("AI"), Null, NaN}

EvidenceInputs ==
  { GoodEvidence,
    MkEvidence(Str("iso27001_attestation"), Obj(<< <<"scope", Null>> >>)),
    MkEvidence(Str(""), Obj(<< <<"scope", Str("ISMS")>> >>)),
    MkEvidence(Str("iso27001_attestation"), Arr(<< Str("ISMS") >>)),
    MkEvidence(Str("iso27001_attestation"), Undef),
    Undef }

ExpiryInputs == {Undef, Str(Iso(0)), Str(Iso(MaxTime + 1)), Str("soon")}

\* one credential per variation of a single field of the well-formed one,
\* and the credential that is wrong on every axis
CredInputs ==
  { MkCredential(Str(DidA), st, Undef, GoodEvidence) : st \in Statuses }
  \cup { MkCredential(Str(d), "approved", Undef, GoodEvidence) :
           d \in {DidB, DidV1, DidOther} }
  \cup { MkCredential(Str(DidA), "approved", e, GoodEvidence) : e \in ExpiryInputs }
  \cup { MkCredential(Str(DidA), "approved", Undef, ev) : ev \in EvidenceInputs }
  \cup { MkCredential(Str(DidOther), "revoked", Str("soon"), Undef) }

(* ------------- lib/did/generate.ts, lib/credential/builder.ts ---------- *)
\* String.prototype.toLowerCase on one character
LowerChar(c) ==
  CASE c = "A" -> "a" [] c = "B" -> "b" [] c = "C" -> "c"
    [] c = "D" -> "d" [] c = "E" -> "e" [] c = "F" -> "f"
    [] OTHER -> c

toLowerCase(cs) == [i \in 1..Len(cs) |-> LowerChar(cs[i])]

\* what randomUUID() can return
RandomUuids == {UuidAChars, UuidBChars}

\* the character strings the model's credential ids are made of
IdChars(s) ==
  CHOOSE cs \in {UuidAChars, UuidBChars, UuidUpperChars} : Concat(cs) = s

\* generateDid(), randomUUID() having returned uuid
generateDid(uuid) == Str(PREFIX \o Concat(toLowerCase(uuid)))

\* generateCredentialId(), randomUUID() having returned uuid
generateCredentialId(uuid) == Str(Concat(toLowerCase(uuid)))

\* serviceVerifiedDid(id)
serviceVerifiedDid(id) == Str(PREFIX \o Concat(toLowerCase(IdChars(id.s))))

\* extractUuid(did) = parseDid(did).uuid, for a did parseDid accepts
extractUuid(did) ==
  Str(Concat(toLowerCase(SubSeq(Trim(CharsOf(did.s)), Len(PREFIX_CHARS) + 1,
                                Len(Trim(CharsOf(did.s)))))))

\* new CredentialBuilder(id): the private fields after the constructor;
\* uuid is what randomUUID() returns if the constructor calls it
CredentialBuilder(id, uuid) ==
  [ id |-> IF id.t \in {"undefined", "null"} THEN generateCredentialId(uuid) ELSE id,
    status |-> Str("pending"),
    source |-> Undef,
    evidence |-> Undef,
    expiresAt |-> Undef ]

\* withEvidence merging the new evidence into the one already set
withEvidence_merges(b, evidence) ==
  IF b.evidence.t = "object" /\ evidence.t = "object"
  THEN [b EXCEPT !.evidence =
          Obj(SelectSeq(b.evidence.kv, LAMBDA p : ~HasKey(evidence, p[1]))
              \o evidence.kv)]
  ELSE [b EXCEPT !.evidence = evidence]

withStatus(b, status) == [b EXCEPT !.status = status]
withSource(b, source) == [b EXCEPT !.source = source]
withEvidence(b, evidence) == [b EXCEPT !.evidence = evidence]
withExpiration(b, iso8601) == [b EXCEPT !.expiresAt = iso8601]

\* build() deriving the DID from the id as given
build_didFromRawId(b, clock) ==
  IF ~Truthy(b.source) \/ ~Truthy(b.evidence)
  THEN [threw |-> TRUE, out |-> Str("CredentialBuilder: source and evidence are required")]
  ELSE [threw |-> FALSE,
        out |-> Obj(<< <<"schema_version", Str("1.0")>>,
                       <<"did", Str(PREFIX \o b.id.s)>>,
                       <<"id", b.id>>,
                       <<"status", b.status>>,
                       <<"source", b.source>>,
                       <<"created_at", Str(Iso(clock))>>,
                       <<"updated_at", Str(Iso(clock))>>,
                       <<"evidence", b.evidence>> >>
                    \o (IF Truthy(b.expiresAt)
                        THEN << <<"expires_at", b.expiresAt>> >> ELSE << >>))]

\* build(): threw says whether it ended in `throw new Error(...)`; out is the
\* returned credential, or the message of the Error thrown
build(b, clock) ==
  IF ~Truthy(b.source) \/ ~Truthy(b.evidence)
  THEN [threw |-> TRUE, out |-> Str("CredentialBuilder: source and evidence are required")]
  ELSE [threw |-> FALSE,
        out |-> Obj(<< <<"schema_version", Str("1.0")>>,
                       <<"did", serviceVerifiedDid(b.id)>>,
                       <<"id", b.id>>,
                       <<"status", b.status>>,
                       <<"source", b.source>>,
                       <<"created_at", Str(Iso(clock))>>,
                       <<"updated_at", Str(Iso(clock))>>,
                       <<"evidence", b.evidence>> >>
                    \o (IF Truthy(b.expiresAt)
                        THEN << <<"expires_at", b.expiresAt>> >> ELSE << >>))]

(* --------------------------- lib/crypto/sign.ts ------------------------ *)
\* Buffer.from(bytes).toString('base64')
Base64Encode(bytes) == "base64(" \o bytes \o ")"

\* every signature the signer can produce
SignatureBytes ==
  { edSign(canonicalizeCredential(c), k) : c \in CredInputs, k \in KeyIds }

\* Buffer.from(text, 'base64'): the bytes the text encodes; text that encodes
\* no signature decodes to bytes that are no signature
Base64Decode(text) ==
  IF \E b \in SignatureBytes : Base64Encode(b) = text
  THEN CHOOSE b \in SignatureBytes : Base64Encode(b) = text
  ELSE ""

\* signCredential signing the digest instead of the canonical bytes
signCredential_signsHash(credential, privateKey, clock) ==
  LET canonical == canonicalizeCredential(credential)
      hash == sha256hex(canonical)
      signature == edSign(hash, privateKey)
      envelope ==
        Obj(<< <<"version", Str("1.0")>>,
               <<"algorithm", Str("Ed25519")>>,
               <<"signature", Str(Base64Encode(signature))>>,
               <<"verificationMethod",
                 Str(TemplateString(Get(credential, "did")) \o "#key-1")>>,
               <<"credentialHash", Str(hash)>>,
               <<"created", Str(Iso(clock))>> >>)
  IN Set(credential, "verification", envelope)

signCredential(credential, privateKey, clock) ==
  LET canonical == canonicalizeCredential(credential)
      hash == sha256hex(canonical)
      signature == edSign(canonical, privateKey)
      envelope ==
        Obj(<< <<"version", Str("1.0")>>,
               <<"algorithm", Str("Ed25519")>>,
               <<"signature", Str(Base64Encode(signature))>>,
               <<"verificationMethod",
                 Str(TemplateString(Get(credential, "did")) \o "#key-1")>>,
               <<"credentialHash", Str(hash)>>,
               <<"created", Str(Iso(clock))>> >>)
  IN Set(credential, "verification", envelope)

\* signCredential over the model's inputs, evaluated once
Signed ==
  [c \in CredInputs, k \in KeyIds, t \in 0..MaxTime |-> signCredential(c, k, t)]

(* -------------------------- lib/crypto/verify.ts ----------------------- *)
\* verifySignature treating a hash mismatch as a failed verification
verifySignature_rejectsOnMismatch(credential, publicKey) ==
  LET verification == Get(credential, "verification")
      canonical == canonicalizeCredential(Without(credential, "verification"))
      hash == sha256hex(canonical)
  IN IF verification.t \in {"undefined", "null"}
     THEN [out |-> "throw", warned |-> FALSE]
     ELSE LET warned == Get(verification, "credentialHash") # Str(hash)
          IN IF Get(verification, "signature").t # "string"
             THEN [out |-> "throw", warned |-> warned]
             ELSE IF ~warned /\ edVerify(Base64Decode(Get(verification, "signature").s),
                                         canonical, publicKey)
             THEN [out |-> "true", warned |-> warned]
             ELSE [out |-> "false", warned |-> warned]

\* out: "true" / "false" for the returned boolean, "throw" for an exception;
\* warned: console.warn('Hash mismatch ...') was called
verifySignature(credential, publicKey) ==
  LET verification == Get(credential, "verification")
      canonical == canonicalizeCredential(Without(credential, "verification"))
      hash == sha256hex(canonical)
  IN IF verification.t \in {"undefined", "null"}
     THEN [out |-> "throw", warned |-> FALSE]
     ELSE LET warned == Get(verification, "credentialHash") # Str(hash)
          IN IF Get(verification, "signature").t # "string"
             THEN [out |-> "throw", warned |-> warned]
             ELSE IF edVerify(Base64Decode(Get(verification, "signature").s),
                              canonical, publicKey)
             THEN [out |-> "true", warned |-> warned]
             ELSE [out |-> "false", warned |-> warned]

(* --------------------------- lib/did/resolve.ts ------------------------ *)
VARIABLES
  fileExists,  \* ./data/did-registry.ndjson exists
  log,         \* its lines, oldest first, each the parsed form of one record
  cache,       \* didCache: <<key, value>> pairs, most recently used first
  now,         \* the clock
  cred,        \* the credential the caller holds
  signedAs,    \* the credential as signCredential returned it, and its key
  edits,       \* non-envelope fields changed since it was signed
  ret,         \* the last call and what it returned
  calls,       \* the line of every publishDIDDocument call, in call order
  appends,     \* the calls whose appendFile has not yet written its line
  reads,       \* the resolveDID calls waiting on readFile or on their resumption
  stale,       \* cache hits that returned another document than the latest record
  builder,     \* the CredentialBuilder the caller holds: its private fields
  chain,       \* the calls made on that builder, createCredential first
  verify       \* the verifyCredential call in progress: where it is suspended

vars ==
  << fileExists, log, cache, now, cred, signedAs, edits, ret,
     calls, appends, reads, stale, builder, chain, verify >>

DidInputs == {DidA, DidB}

\* a DID document holding the public key of key pair k
DocOf(k) == Obj(<< <<"publicKey", Str("key-" \o ToString(k))>> >>)
DocInputs == { DocOf(k) : k \in KeyIds }

\* JSON.parse(JSON.stringify(v)): what a value is after a trip through a line
RECURSIVE JsonImage(_)
JsonImage(v) ==
  CASE v.t = "nan" -> Null
    [] v.t = "undefined" -> Null
    [] v.t = "array" -> Arr([i \in 1..Len(v.a) |-> JsonImage(v.a[i])])
    [] v.t = "object" ->
         Obj(LET kept == SelectSeq(v.kv, LAMBDA p : p[2].t # "undefined")
             IN [i \in 1..Len(kept) |-> << kept[i][1], JsonImage(kept[i][2]) >>])
    [] OTHER -> v

publishRecord(did, document, clock) ==
  Obj(<< <<"did", Str(did)>>,
         <<"document", document>>,
         <<"publishedAt", Str(Iso(clock))>>,
         <<"operation", Str("create")>> >>)

\* the reverse scan of resolveDID over lines[1..i]
RECURSIVE ScanLines(_, _, _)
ScanLines(lines, i, did) ==
  IF i = 0 THEN [out |-> "throw", error |-> "DID not found", doc |-> Undef]
  ELSE IF Get(lines[i], "did") = did
  THEN [out |-> "return", error |-> "", doc |-> Get(lines[i], "document")]
  ELSE ScanLines(lines, i - 1, did)

\* resolveDID of the file-backed registry: readFile fails on a missing file,
\* and ''.trim().split('\n') is [''], whose only line JSON.parse rejects
resolveDIDFromFile(did, exists, lines) ==
  IF ~exists THEN [out |-> "throw", error |-> "ENOENT", doc |-> Undef]
  ELSE IF lines = << >>
  THEN [out |-> "throw", error |-> "SyntaxError", doc |-> Undef]
  ELSE ScanLines(lines, Len(lines), did)

(* LRU<string, DIDDocument> *)
LruHas(c, k) == \E i \in 1..Len(c) : c[i][1] = k
LruPeek(c, k) == c[CHOOSE i \in 1..Len(c) : c[i][1] = k][2]
LruDrop(c, k) == SelectSeq(c, LAMBDA p : p[1] # k)
\* get(k) makes k the most recently used entry
LruTouch(c, k) == IF LruHas(c, k) THEN << <<k, LruPeek(c, k)>> >> \o LruDrop(c, k) ELSE c
\* set(k, v) puts k first and evicts the least recently used entries over capacity
LruSet(c, k, v) ==
  LET put == << <<k, v>> >> \o LruDrop(c, k)
  IN SubSeq(put, 1, IF Len(put) > CacheCap THEN CacheCap ELSE Len(put))

\* resolveDID with the cache in front; cache is the cache after the call
resolveDID(did, c, exists, lines) ==
  IF LruHas(c, did) /\ Truthy(LruPeek(c, did))
  THEN [out |-> "return", error |-> "", doc |-> LruPeek(c, did),
        cache |-> LruTouch(c, did)]
  ELSE LET r == resolveDIDFromFile(did, exists, lines)
       IN IF r.out = "throw"
          THEN [out |-> "throw", error |-> r.error, doc |-> Undef,
                cache |-> LruTouch(c, did)]
          ELSE [out |-> "return", error |-> "", doc |-> r.doc,
                cache |-> LruSet(c, did, r.doc)]

\* listDIDs: the DIDs of the log, each once, in order of first appearance
RECURSIVE listDIDs(_)
listDIDs(lines) ==
  IF lines = << >> THEN << >>
  ELSE LET front == listDIDs(SubSeq(lines, 1, Len(lines) - 1))
           d == Get(lines[Len(lines)], "did")
       IN IF \E i \in 1..Len(front) : front[i] = d THEN front ELSE Append(front, d)

(* ----------------------- lib/verification/verify.ts -------------------- *)
CheckNames ==
  << "signatureValid", "didFormatValid", "didResolvable", "statusValid",
     "timeValid", "evidenceValid" >>

\* the public key a resolved document carries
extractPublicKey(didDoc) ==
  IF \E k \in KeyIds : Get(didDoc, "publicKey") = Get(DocOf(k), "publicKey")
  THEN [out |-> "return",
        key |-> CHOOSE k \in KeyIds : Get(didDoc, "publicKey") = Get(DocOf(k), "publicKey")]
  ELSE [out |-> "throw", key |-> 0]

Err(check, code) == [check |-> check, code |-> code]

\* check 2: the try block around the first resolveDID and its catch
resolutionCheck(credential, c, exists, lines) ==
  LET r == resolveDID(Get(credential, "did"), c, exists, lines)
  IN IF r.out = "throw"
     THEN [threw |-> FALSE, ok |-> FALSE, cache |-> r.cache,
           errors |-> << Err("didResolvable", "DID_NOT_FOUND") >>]
     ELSE [threw |-> FALSE, ok |-> Truthy(r.doc), cache |-> r.cache,
           errors |-> << >>]

\* the body of the try block of check 3
signatureStep(credential, c, exists, lines) ==
  LET r == resolveDID(Get(credential, "did"), c, exists, lines)
  IN IF r.out = "throw" THEN [out |-> "throw", cache |-> r.cache]
     ELSE LET pk == extractPublicKey(r.doc)
          IN IF pk.out = "throw" THEN [out |-> "throw", cache |-> r.cache]
             ELSE [out |-> verifySignature(credential, pk.key).out,
                   cache |-> r.cache]

\* check 3 without its catch block
signatureCheck_noCatch(credential, didResolvable, c, exists, lines) ==
  IF ~didResolvable
  THEN [threw |-> FALSE, ok |-> FALSE, cache |-> c, errors |-> << >>]
  ELSE LET s == signatureStep(credential, c, exists, lines)
       IN [threw |-> s.out = "throw", ok |-> s.out = "true", cache |-> s.cache,
           errors |-> << >>]

\* check 3 attempted whether or not the DID resolved
signatureCheck_alwaysAttempts(credential, didResolvable, c, exists, lines) ==
  LET s == signatureStep(credential, c, exists, lines)
  IN IF s.out = "throw"
     THEN [threw |-> FALSE, ok |-> FALSE, cache |-> s.cache,
           errors |-> << Err("signatureValid", "SIGNATURE_VERIFICATION_FAILED") >>]
     ELSE [threw |-> FALSE, ok |-> s.out = "true", cache |-> s.cache,
           errors |-> << >>]

\* check 3: skipped unless didResolvable; its try block and its catch
signatureCheck(credential, didResolvable, c, exists, lines) ==
  IF ~didResolvable
  THEN [threw |-> FALSE, ok |-> FALSE, cache |-> c, errors |-> << >>]
  ELSE LET s == signatureStep(credential, c, exists, lines)
       IN IF s.out = "throw"
          THEN [threw |-> FALSE, ok |-> FALSE, cache |-> s.cache,
                errors |-> << Err("signatureValid", "SIGNATURE_VERIFICATION_FAILED") >>]
          ELSE [threw |-> FALSE, ok |-> s.out = "true", cache |-> s.cache,
                errors |-> << >>]

\* check 4 passing the approved status alone
statusCheck_approvedOnly(credential) == Get(credential, "status") = Str("approved")

\* check 4
statusCheck(credential) ==
  Get(credential, "status") \notin {Str("revoked"), Str("rejected")}

\* the aggregate leaving the signature axis out
everyCheck_skipsSignature(checks) ==
  \A i \in 2..Len(CheckNames) : checks[CheckNames[i]]

\* Object.values(checks).every(v => v === true)
everyCheck(checks) == \A i \in 1..Len(CheckNames) : checks[CheckNames[i]]

\* check 1
didFormatCheck(credential) == isValidDid(Get(credential, "did"))

\* check 5 failing a credential that has no expires_at
timeCheck_requiresExpiry(credential, clock) ==
  /\ Truthy(Get(credential, "expires_at"))
  /\ DateParse(Get(credential, "expires_at")).valid
  /\ clock <= DateParse(Get(credential, "expires_at")).ms

\* check 5 with `<` in place of `<=`
timeCheck_strictlyBefore(credential, clock) ==
  IF Truthy(Get(credential, "expires_at"))
  THEN /\ DateParse(Get(credential, "expires_at")).valid
       /\ clock < DateParse(Get(credential, "expires_at")).ms
  ELSE TRUE

\* check 5
timeCheck(credential, clock) ==
  IF Truthy(Get(credential, "expires_at"))
  THEN /\ DateParse(Get(credential, "expires_at")).valid
       /\ clock <= DateParse(Get(credential, "expires_at")).ms
  ELSE TRUE

\* check 6
evidenceCheck(credential) ==
  /\ Truthy(Get(Get(credential, "evidence"), "type"))
  /\ Truthy(Get(Get(credential, "evidence"), "payload"))
  /\ TypeofObject(Get(Get(credential, "evidence"), "payload"))

\* errors.push(...) when the check failed
PushUnless(ok, check, code) == IF ok THEN << >> ELSE << Err(check, code) >>

\* the checks stopping at the first failure: a check passes only if the
\* checks before it passed
checksOf_stopsAtFirstFailure(credential, c2, c3, clock) ==
  [signatureValid |-> c3.ok,
   didFormatValid |-> didFormatCheck(credential),
   didResolvable |-> c2.ok,
   statusValid |-> didFormatCheck(credential) /\ c2.ok /\ c3.ok
                   /\ statusCheck(credential),
   timeValid |-> didFormatCheck(credential) /\ c2.ok /\ c3.ok
                 /\ statusCheck(credential) /\ timeCheck(credential, clock),
   evidenceValid |-> didFormatCheck(credential) /\ c2.ok /\ c3.ok
                     /\ statusCheck(credential) /\ timeCheck(credential, clock)
                     /\ evidenceCheck(credential)]

\* the six checks, from the outcomes c2 and c3 of checks 2 and 3 and from
\* the four checks that read the credential alone
checksOf(credential, c2, c3, clock) ==
  [signatureValid |-> c3.ok,
   didFormatValid |-> didFormatCheck(credential),
   didResolvable |-> c2.ok,
   statusValid |-> statusCheck(credential),
   timeValid |-> timeCheck(credential, clock),
   evidenceValid |-> evidenceCheck(credential)]

\* the errors in the order they are pushed, and the returned result
verificationResult(credential, c2, c3, checks) ==
  [threw |-> credential.t \in {"undefined", "null"} \/ c2.threw \/ c3.threw,
   valid |-> everyCheck(checks),
   checks |-> checks,
   credential |-> [did |-> Get(credential, "did"),
                   status |-> Get(credential, "status"),
                   issuedAt |-> Get(credential, "created_at"),
                   source |-> Get(credential, "source")],
   errors |-> PushUnless(checks.didFormatValid, "didFormatValid", "INVALID_DID_FORMAT")
              \o c2.errors
              \o c3.errors
              \o PushUnless(checks.statusValid, "statusValid", "CREDENTIAL_INVALID_STATUS")
              \o PushUnless(checks.timeValid, "timeValid", "CREDENTIAL_EXPIRED")
              \o PushUnless(checks.evidenceValid, "evidenceValid", "INVALID_EVIDENCE"),
   cache |-> c3.cache]

\* check 3, then checks 4 to 6 and the return, given the outcome c2 of check 2
verifyAfterSignature(credential, c2, c3, clock) ==
  verificationResult(credential, c2, c3, checksOf(credential, c2, c3, clock))

verifyAfterResolution(credential, c2, exists, lines, clock) ==
  verifyAfterSignature(credential, c2,
                       signatureCheck(credential, c2.ok, c2.cache, exists, lines),
                       clock)

\* the whole of verifyCredential: the result it returns, whether an exception
\* reached the caller, and the cache it leaves behind
verifyCredential(credential, c, exists, lines, clock) ==
  verifyAfterResolution(credential, resolutionCheck(credential, c, exists, lines),
                        exists, lines, clock)

(* ------------------------------ the calls ------------------------------ *)
NoCall == [op |-> "none"]

\* a resolveDID call slot with no call in it
Idle == [phase |-> "idle"]

\* no builder has been created yet
NoBuilder == [id |-> Undef]

\* no verifyCredential call is suspended
NotVerifying == [phase |-> "idle"]

Init ==
  /\ fileExists \in BOOLEAN
  /\ log = << >>
  /\ cache = << >>
  /\ now = 0
  /\ cred = Undef
  /\ signedAs = [key |-> 0, cred |-> Undef]
  /\ edits = 0
  /\ ret = NoCall
  /\ calls = << >>
  /\ appends = {}
  /\ reads = [r \in 1..MaxReaders |-> Idle]
  /\ stale = 0
  /\ builder = NoBuilder
  /\ chain = << >>
  /\ verify = NotVerifying

Tick ==
  /\ now < MaxTime
  /\ now' = now + 1
  /\ UNCHANGED << fileExists, log, cache, cred, signedAs, edits, ret, calls, appends, reads, stale, builder, chain, verify >>

\* publishDIDDocument overwriting the DID's earlier record, as a key-value
\* registry would
Publish_upsert(did, document) ==
  /\ Len(log) < MaxLog
  /\ fileExists' = TRUE
  /\ log' = Append(SelectSeq(log, LAMBDA line : Get(line, "did") # Str(did)),
                   JsonImage(publishRecord(did, document, now)))
  /\ calls' = Append(calls, JsonImage(publishRecord(did, document, now)))
  /\ ret' = [op |-> "publish"]
  /\ UNCHANGED << cache, now, cred, signedAs, edits, appends, reads, stale, builder, chain, verify >>

\* publishDIDDocument(did, document): appendFile creates the file if needed
Publish(did, document) ==
  /\ Len(log) < MaxLog
  /\ fileExists' = TRUE
  /\ log' = Append(log, JsonImage(publishRecord(did, document, now)))
  /\ calls' = Append(calls, JsonImage(publishRecord(did, document, now)))
  /\ ret' = [op |-> "publish"]
  /\ UNCHANGED << cache, now, cred, signedAs, edits, appends, reads, stale, builder, chain, verify >>

\* resolveDID(did)
Resolve(did) ==
  LET r == resolveDID(Str(did), cache, fileExists, log)
  IN /\ cache' = r.cache
     /\ ret' = [op |-> "resolve", did |-> Str(did), out |-> r.out,
                error |-> r.error, doc |-> r.doc]
     /\ UNCHANGED << fileExists, log, now, cred, signedAs, edits, calls, appends, reads, stale, builder, chain, verify >>

\* DIDRegistry.list()
List ==
  /\ ret' = [op |-> "list", dids |-> listDIDs(log)]
  /\ UNCHANGED << fileExists, log, cache, now, cred, signedAs, edits, calls, appends, reads, stale, builder, chain, verify >>

(* The same calls when the caller does not await one before making the next.
   publishDIDDocument builds its record when called and hands the line to
   appendFile, which writes it in one write to a file opened for appending;
   nothing orders the writes of two calls. resolveDID looks in the cache when
   called, awaits readFile, and after the scan is resumed to fill the cache. *)

\* publishDIDDocument(did, document) up to its await
PublishCall(did, document) ==
  /\ Len(calls) < MaxLog
  /\ calls' = Append(calls, JsonImage(publishRecord(did, document, now)))
  /\ appends' = appends \cup {Len(calls) + 1}
  /\ UNCHANGED << fileExists, log, cache, now, cred, signedAs, edits, ret,
                  reads, stale, builder, chain, verify >>

\* the appendFile of call i writes its line, and the call's promise resolves
AppendFile(i) ==
  /\ i \in appends
  /\ fileExists' = TRUE
  /\ log' = Append(log, calls[i])
  /\ appends' = appends \ {i}
  /\ ret' = [op |-> "publish"]
  /\ UNCHANGED << cache, now, cred, signedAs, edits, calls, reads, stale, builder, chain, verify >>

\* the document the newest record of did holds in the file
LatestDocument(did) == ScanLines(log, Len(log), did).doc

\* didCache.get(did) returned a document while no publish was in flight, and
\* it is not the document of the newest record
StaleHit(did) ==
  /\ appends = {}
  /\ LruHas(cache, did) /\ Truthy(LruPeek(cache, did))
  /\ LruPeek(cache, did) # LatestDocument(did)

\* resolveDID(did) up to its await: a cache hit returns at once, a miss
\* starts readFile
ResolveCall(r, did) ==
  /\ reads[r] = Idle
  /\ cache' = LruTouch(cache, Str(did))
  /\ IF LruHas(cache, Str(did)) /\ Truthy(LruPeek(cache, Str(did)))
     THEN /\ ret' = [op |-> "resolve", did |-> Str(did), out |-> "return",
                     error |-> "", doc |-> LruPeek(cache, Str(did))]
          /\ stale' = IF StaleHit(Str(did)) /\ stale < MaxStale
                      THEN stale + 1 ELSE stale
          /\ UNCHANGED reads
     ELSE /\ reads' = [reads EXCEPT ![r] = [phase |-> "readFile", did |-> Str(did)]]
          /\ UNCHANGED << ret, stale >>
  /\ UNCHANGED << fileExists, log, now, cred, signedAs, edits, calls, appends, builder, chain, verify >>

\* readFile completes with the file as it is at that moment
ReadFile(r) ==
  /\ reads[r].phase = "readFile"
  /\ reads' = [reads EXCEPT ![r] = [phase |-> "resume", did |-> reads[r].did,
                                    exists |-> fileExists, lines |-> log]]
  /\ UNCHANGED << fileExists, log, cache, now, cred, signedAs, edits, ret,
                  calls, appends, stale, builder, chain, verify >>

\* the scan of what was read; resolveDID is resumed, fills the cache and returns
ResolveResume(r) ==
  /\ reads[r].phase = "resume"
  /\ LET f == resolveDIDFromFile(reads[r].did, reads[r].exists, reads[r].lines)
     IN /\ cache' = IF f.out = "throw" THEN cache ELSE LruSet(cache, reads[r].did, f.doc)
        /\ ret' = [op |-> "resolve", did |-> reads[r].did, out |-> f.out,
                   error |-> f.error, doc |-> f.doc]
  /\ reads' = [reads EXCEPT ![r] = Idle]
  /\ UNCHANGED << fileExists, log, now, cred, signedAs, edits, calls, appends, stale, builder, chain, verify >>

\* signCredential(credential, privateKey)
Sign(credential, privateKey) ==
  /\ cred' = Signed[credential, privateKey, now]
  /\ signedAs' = [key |-> privateKey, cred |-> cred']
  /\ edits' = 0
  /\ ret' = [op |-> "sign"]
  /\ UNCHANGED << fileExists, log, cache, now, calls, appends, reads, stale, builder, chain, verify >>

\* a field of the signed credential is changed: status
TamperStatus(status) ==
  /\ cred.t = "object"
  /\ HasKey(cred, "verification")
  /\ edits < MaxEdits
  /\ Get(cred, "status") # Str(status)
  /\ cred' = Set(cred, "status", Str(status))
  /\ edits' = edits + 1
  /\ ret' = [op |-> "tamper", field |-> "status"]
  /\ UNCHANGED << fileExists, log, cache, now, signedAs, calls, appends, reads, stale, builder, chain, verify >>

\* a field of the signed credential is changed: evidence.payload.scope
TamperScope(value) ==
  /\ cred.t = "object"
  /\ HasKey(cred, "verification")
  /\ edits < MaxEdits
  /\ Get(Get(cred, "evidence"), "payload").t = "object"
  /\ Get(Get(Get(cred, "evidence"), "payload"), "scope") # value
  /\ cred' = Set(cred, "evidence",
                 Set(Get(cred, "evidence"), "payload",
                     Set(Get(Get(cred, "evidence"), "payload"), "scope", value)))
  /\ edits' = edits + 1
  /\ ret' = [op |-> "tamper", field |-> "evidence"]
  /\ UNCHANGED << fileExists, log, cache, now, signedAs, calls, appends, reads, stale, builder, chain, verify >>

\* the envelope is lost: the credential arrives without `verification`
StripEnvelope ==
  /\ cred.t = "object"
  /\ HasKey(cred, "verification")
  /\ cred' = Without(cred, "verification")
  /\ ret' = [op |-> "tamper", field |-> "verification"]
  /\ UNCHANGED << fileExists, log, cache, now, signedAs, edits, calls, appends, reads, stale, builder, chain, verify >>

\* verifySignature(credential, publicKey)
VerifySignature(publicKey) ==
  /\ cred.t = "object"
  /\ ret' = [op |-> "verifySignature", key |-> publicKey,
             out |-> verifySignature(cred, publicKey).out,
             warned |-> verifySignature(cred, publicKey).warned]
  /\ UNCHANGED << fileExists, log, cache, now, cred, signedAs, edits, calls, appends, reads, stale, builder, chain, verify >>

\* verifyCredential(credential)
VerifyCredential ==
  /\ cred.t = "object"
  /\ LET r == verifyCredential(cred, cache, fileExists, log, now)
     IN /\ cache' = r.cache
        /\ ret' = [op |-> "verifyCredential", threw |-> r.threw,
                   valid |-> r.valid, checks |-> r.checks,
                   credential |-> r.credential, errors |-> r.errors]
  /\ UNCHANGED << fileExists, log, now, cred, signedAs, edits, calls, appends, reads, stale, builder, chain, verify >>

\* credentials whose payload has array-index names, and arrays of objects
CanonInputs ==
  CredInputs
  \cup { MkCredential(Str(DidA), "approved", Undef,
                      MkEvidence(Str("iso27001_attestation"),
                                 Obj(<< <<"2", Str("A.5")>>, <<"10", Str("A.8")>>,
                                        <<"scope", Str("ISMS")>> >>))),
         MkCredential(Str(DidA), "approved", Undef,
                      MkEvidence(Str("iso27001_attestation"),
                                 Obj(<< <<"scope",
                                          Arr(<< Str("ISMS"), Str("AI"),
                                                 Obj(<< <<"type", Str("t")>>,
                                                        <<"id", Str("i")>> >>) >>)>>,
                                        <<"id", Str("p")>> >>))) }

\* the top-level fields the caller writes in another order
ReorderKeys == {"did", "status"}
PayloadKeys == {"scope", "2"}

\* what may sit in the `verification` field of a credential given to
\* canonicalizeCredential: the envelope signCredential makes for it, or junk
EnvelopeInputs(credential, clock) ==
  { Get(signCredential(credential, k, clock), "verification") : k \in KeyIds }
  \cup { Null, Str("sig"), Obj(<< >>) }

\* the caller builds a credential
Hold(credential) ==
  /\ cred = Undef
  /\ cred' = credential
  /\ ret' = [op |-> "hold"]
  /\ UNCHANGED << fileExists, log, cache, now, signedAs, edits,
                  calls, appends, reads, stale, builder, chain, verify >>

\* the same fields written in another order: `delete c[k]; c[k] = v`
MoveKeyLast(k) ==
  /\ cred.t = "object"
  /\ HasKey(cred, k)
  /\ cred' = Set(Without(cred, k), k, Get(cred, k))
  /\ cred' # cred
  /\ ret' = [op |-> "reorder"]
  /\ UNCHANGED << fileExists, log, cache, now, signedAs, edits,
                  calls, appends, reads, stale, builder, chain, verify >>

\* the same, for a field of evidence.payload
MovePayloadKeyLast(k) ==
  /\ cred.t = "object"
  /\ Get(Get(cred, "evidence"), "payload").t = "object"
  /\ HasKey(Get(Get(cred, "evidence"), "payload"), k)
  /\ cred' = Set(cred, "evidence",
                 Set(Get(cred, "evidence"), "payload",
                     Set(Without(Get(Get(cred, "evidence"), "payload"), k), k,
                         Get(Get(Get(cred, "evidence"), "payload"), k))))
  /\ cred' # cred
  /\ ret' = [op |-> "reorder"]
  /\ UNCHANGED << fileExists, log, cache, now, signedAs, edits,
                  calls, appends, reads, stale, builder, chain, verify >>

\* { ...credential, verification: e }
AttachEnvelope(e) ==
  /\ cred.t = "object"
  /\ ~HasKey(cred, "verification")
  /\ cred' = Set(cred, "verification", e)
  /\ ret' = [op |-> "attach"]
  /\ UNCHANGED << fileExists, log, cache, now, signedAs, edits,
                  calls, appends, reads, stale, builder, chain, verify >>

\* canonicalizeCredential(credential): the object handed to JSON.stringify
\* and the text returned
Canonicalize ==
  /\ cred.t = "object"
  /\ ret' = [op |-> "canonicalize",
             sorted |-> sortKeysDeep(Without(cred, "verification")),
             out |-> canonicalizeCredential(cred)]
  /\ UNCHANGED << fileExists, log, cache, now, cred, signedAs, edits,
                  calls, appends, reads, stale, builder, chain, verify >>

\* the canonicalizer on its own
CanonNext ==
  \/ \E c \in CanonInputs : Hold(c)
  \/ \E k \in ReorderKeys : MoveKeyLast(k)
  \/ \E k \in PayloadKeys : MovePayloadKeyLast(k)
  \/ cred.t = "object" /\ \E e \in EnvelopeInputs(cred, now) : AttachEnvelope(e)
  \/ Canonicalize

CanonSpec == Init /\ [][CanonNext]_vars

\* the values given to isValidDid and parseDid
DidValueInputs ==
  { Str(StringOf[cs]) : cs \in DidCharInputs }
  \cup { Undef, Null, Obj(<< >>), Arr(<< >>) }

\* isValidDid(value)
IsValidDid(value) ==
  /\ ret' = [op |-> "isValidDid", value |-> value, out |-> isValidDid(value)]
  /\ UNCHANGED << fileExists, log, cache, now, cred, signedAs, edits,
                  calls, appends, reads, stale, builder, chain, verify >>

\* parseDid(did)
ParseDid(did) ==
  /\ ret' = [op |-> "parseDid", value |-> did,
             out |-> IF parseDidOk(did) THEN "return" ELSE "throw"]
  /\ UNCHANGED << fileExists, log, cache, now, cred, signedAs, edits,
                  calls, appends, reads, stale, builder, chain, verify >>

\* the DID parser on its own
DidNext ==
  \/ \E v \in DidValueInputs : IsValidDid(v)
  \/ \E v \in DidValueInputs : ParseDid(v)

DidSpec == Init /\ [][DidNext]_vars

(* The builder: createCredential(id) and the calls chained on what it returns *)
\* the ids createCredential is given; undefined makes the constructor draw one
BuilderIdInputs ==
  { Undef, Str(Concat(UuidUpperChars)), Str(Concat(UuidBChars)) }

Soc2Evidence ==
  Obj(<< <<"type", Str("soc2_report")>>, <<"report_type", Str("Type II")>> >>)

BuilderFrame ==
  UNCHANGED << fileExists, log, cache, now, cred, signedAs, edits,
               calls, appends, reads, stale, verify >>

\* generateDid()
GenerateDid(uuid) ==
  /\ ret' = [op |-> "generateDid", out |-> generateDid(uuid)]
  /\ UNCHANGED << builder, chain >>
  /\ BuilderFrame

\* createCredential(id)
CreateCredential(id, uuid) ==
  /\ builder' = CredentialBuilder(id, uuid)
  /\ chain' = << [op |-> "createCredential", arg |-> id, of |-> Undef] >>
  /\ ret' = [op |-> "createCredential"]
  /\ BuilderFrame

\* createCredential(extractUuid(did)) for the did generateDid() just returned
CreateFromDid ==
  /\ ret.op = "generateDid"
  /\ builder' = CredentialBuilder(extractUuid(ret.out), UuidAChars)
  /\ chain' = << [op |-> "createCredential", arg |-> extractUuid(ret.out),
                  of |-> ret.out] >>
  /\ ret' = [op |-> "createCredential"]
  /\ BuilderFrame

\* a with* call is made on a builder that exists, and returns `this`
Chained(op, arg) ==
  /\ chain # << >>
  /\ Len(chain) <= MaxChain
  /\ chain' = Append(chain, [op |-> op, arg |-> arg])
  /\ ret' = [op |-> op, threw |-> FALSE]
  /\ BuilderFrame

WithStatus(status) ==
  /\ Chained("withStatus", status)
  /\ builder' = withStatus(builder, status)

WithSource(source) ==
  /\ Chained("withSource", source)
  /\ builder' = withSource(builder, source)

WithEvidence(evidence) ==
  /\ Chained("withEvidence", evidence)
  /\ builder' = withEvidence(builder, evidence)

WithExpiration(iso8601) ==
  /\ Chained("withExpiration", iso8601)
  /\ builder' = withExpiration(builder, iso8601)

\* build()
Build ==
  /\ chain # << >>
  /\ ret' = [op |-> "build", threw |-> build(builder, now).threw,
             out |-> build(builder, now).out]
  /\ UNCHANGED << builder, chain >>
  /\ BuilderFrame

BuilderNext ==
  \/ \E uuid \in RandomUuids : GenerateDid(uuid)
  \/ \E id \in BuilderIdInputs, uuid \in RandomUuids : CreateCredential(id, uuid)
  \/ CreateFromDid
  \/ WithStatus(Str("approved"))
  \/ \E source \in {Str("servicepath.compliance.iso27001"), Str("")} :
       WithSource(source)
  \/ \E evidence \in {GoodEvidence, Soc2Evidence} : WithEvidence(evidence)
  \/ WithExpiration(Str(Iso(MaxTime + 1)))
  \/ Build

BuilderSpec == Init /\ [][BuilderNext]_vars

\* the hashes an envelope may come to carry: a corrupted one, and the digest
\* of the fields the credential has now
HashInputs(credential) ==
  { Str("sha256:corrupted"), Str(sha256hex(canonicalizeCredential(credential))) }

\* the embedded hash of the signed credential is changed
TamperHash(hash) ==
  /\ cred.t = "object"
  /\ HasKey(cred, "verification")
  /\ Get(Get(cred, "verification"), "credentialHash") # hash
  /\ cred' = Set(cred, "verification",
                 Set(Get(cred, "verification"), "credentialHash", hash))
  /\ ret' = [op |-> "tamper", field |-> "verification.credentialHash"]
  /\ UNCHANGED << fileExists, log, cache, now, signedAs, edits, calls, appends, reads, stale, builder, chain, verify >>

(* verifyCredential when other calls run while it is suspended. It awaits
   resolveDID twice, in check 2 and again in check 3; resolveDID looks the
   cache up when called, and on a miss awaits readFile and is resumed later. *)
\* verifyCredential(cred) is called: check 1, then check 2 calls resolveDID
VerifyCall ==
  /\ verify = NotVerifying
  /\ cred.t = "object"
  /\ cache' = LruTouch(cache, Get(cred, "did"))
  /\ verify' =
       IF LruHas(cache, Get(cred, "did")) /\ Truthy(LruPeek(cache, Get(cred, "did")))
       THEN [phase |-> "await", check |-> 2, first |-> Undef,
             r |-> [out |-> "return", doc |-> LruPeek(cache, Get(cred, "did"))]]
       ELSE [phase |-> "readFile", check |-> 2, first |-> Undef]
  /\ UNCHANGED << fileExists, log, now, cred, signedAs, edits, ret, calls,
                  appends, reads, stale, builder, chain >>

\* the readFile of the suspended resolveDID completes
VerifyReadFile ==
  /\ verify.phase = "readFile"
  /\ verify' = [phase |-> "resume", check |-> verify.check, first |-> verify.first,
                exists |-> fileExists, lines |-> log]
  /\ UNCHANGED << fileExists, log, cache, now, cred, signedAs, edits, ret, calls,
                  appends, reads, stale, builder, chain >>

\* the suspended resolveDID is resumed: it scans what was read, fills the
\* cache and settles
VerifyResolveResume ==
  /\ verify.phase = "resume"
  /\ LET f == resolveDIDFromFile(Get(cred, "did"), verify.exists, verify.lines)
     IN /\ cache' = IF f.out = "throw" THEN cache
                    ELSE LruSet(cache, Get(cred, "did"), f.doc)
        /\ verify' = [phase |-> "await", check |-> verify.check,
                      first |-> verify.first,
                      r |-> [out |-> f.out, doc |-> f.doc]]
  /\ UNCHANGED << fileExists, log, now, cred, signedAs, edits, ret, calls,
                  appends, reads, stale, builder, chain >>

\* verifyCredential is resumed after check 2's await; the DID did not
\* resolve, so check 3 is skipped and the call returns
VerifyUnresolved ==
  /\ verify.phase = "await"
  /\ verify.check = 2
  /\ ~(verify.r.out = "return" /\ Truthy(verify.r.doc))
  /\ LET c2 == [threw |-> FALSE, ok |-> FALSE, cache |-> cache,
                errors |-> IF verify.r.out = "throw"
                           THEN << Err("didResolvable", "DID_NOT_FOUND") >>
                           ELSE << >>]
         c3 == [threw |-> FALSE, ok |-> FALSE, cache |-> cache, errors |-> << >>]
         v == verifyAfterSignature(cred, c2, c3, now)
     IN ret' = [op |-> "verifyCredential", threw |-> v.threw, valid |-> v.valid,
                checks |-> v.checks, credential |-> v.credential,
                errors |-> v.errors, first |-> Undef,
                second |-> [out |-> "none", doc |-> Undef]]
  /\ verify' = NotVerifying
  /\ UNCHANGED << fileExists, log, cache, now, cred, signedAs, edits, calls,
                  appends, reads, stale, builder, chain >>

\* verifyCredential is resumed after check 2's await with a document:
\* didResolvable is set, and check 3 calls resolveDID again
VerifySignatureStep ==
  /\ verify.phase = "await"
  /\ verify.check = 2
  /\ verify.r.out = "return" /\ Truthy(verify.r.doc)
  /\ cache' = LruTouch(cache, Get(cred, "did"))
  /\ verify' =
       IF LruHas(cache, Get(cred, "did")) /\ Truthy(LruPeek(cache, Get(cred, "did")))
       THEN [phase |-> "await", check |-> 3, first |-> verify.r.doc,
             r |-> [out |-> "return", doc |-> LruPeek(cache, Get(cred, "did"))]]
       ELSE [phase |-> "readFile", check |-> 3, first |-> verify.r.doc]
  /\ UNCHANGED << fileExists, log, now, cred, signedAs, edits, ret, calls,
                  appends, reads, stale, builder, chain >>

\* verifyCredential is resumed after check 3's await: extractPublicKey,
\* verifySignature, checks 4 to 6 and the return
VerifyReturn ==
  /\ verify.phase = "await"
  /\ verify.check = 3
  /\ LET c2 == [threw |-> FALSE, ok |-> TRUE, cache |-> cache, errors |-> << >>]
         out == IF verify.r.out = "throw"
                   \/ extractPublicKey(verify.r.doc).out = "throw"
                THEN "throw"
                ELSE verifySignature(cred, extractPublicKey(verify.r.doc).key).out
         c3 == [threw |-> FALSE, ok |-> out = "true", cache |-> cache,
                errors |-> IF out = "throw"
                           THEN << Err("signatureValid",
                                       "SIGNATURE_VERIFICATION_FAILED") >>
                           ELSE << >>]
         v == verifyAfterSignature(cred, c2, c3, now)
     IN ret' = [op |-> "verifyCredential", threw |-> v.threw, valid |-> v.valid,
                checks |-> v.checks, credential |-> v.credential,
                errors |-> v.errors, first |-> verify.first, second |-> verify.r]
  /\ verify' = NotVerifying
  /\ UNCHANGED << fileExists, log, cache, now, cred, signedAs, edits, calls,
                  appends, reads, stale, builder, chain >>

\* one verifyCredential call with publishes and other callers' resolves
\* running while it is suspended
RaceNext ==
  \/ \E d \in DidInputs, doc \in DocInputs : Publish(d, doc)
  \/ cred = Undef /\ Sign(MkCredential(Str(DidA), "approved", Undef, GoodEvidence),
                          IssuerKey)
  \/ \E d \in DidInputs : Resolve(d)
  \/ VerifyCall
  \/ VerifyReadFile
  \/ VerifyResolveResume
  \/ VerifyUnresolved
  \/ VerifySignatureStep
  \/ VerifyReturn

RaceSpec == Init /\ [][RaceNext]_vars

\* signing, changing fields and the embedded hash, and signature verification
HashNext ==
  \/ \E c \in CredInputs, k \in KeyIds : Sign(c, k)
  \/ \E st \in Statuses : TamperStatus(st)
  \/ \E v \in ScopeValues : TamperScope(v)
  \/ cred.t = "object" /\ \E h \in HashInputs(cred) : TamperHash(h)
  \/ \E k \in KeyIds : VerifySignature(k)

HashSpec == Init /\ [][HashNext]_vars

\* signing, tampering and signature verification
SigNext ==
  \/ Tick
  \/ \E c \in CredInputs, k \in KeyIds : Sign(c, k)
  \/ \E st \in Statuses : TamperStatus(st)
  \/ \E v \in ScopeValues : TamperScope(v)
  \/ StripEnvelope
  \/ \E k \in KeyIds : VerifySignature(k)

SigSpec == Init /\ [][SigNext]_vars

\* the registry on its own
StoreNext ==
  \/ Tick
  \/ \E d \in DidInputs, doc \in DocInputs : Publish(d, doc)
  \/ \E d \in DidInputs : Resolve(d)
  \/ List

StoreSpec == Init /\ [][StoreNext]_vars

\* the verifier in front of the registry: one credential is issued, the
\* registry changes, and the credential is verified again and again
VerifyNext ==
  \/ Tick
  \/ \E d \in DidInputs, doc \in DocInputs :
        Len(log) < MaxVerifyLog /\ Publish(d, doc)
  \/ \E c \in CredInputs : cred = Undef /\ Sign(c, IssuerKey)
  \/ StripEnvelope
  \/ VerifyCredential

VerifySpec == Init /\ [][VerifyNext]_vars

\* the verifier judging credentials as they were signed, at one instant
AxisNext ==
  \/ \E d \in DidInputs, doc \in DocInputs :
        Len(log) < MaxVerifyLog /\ Publish(d, doc)
  \/ \E c \in CredInputs : cred = Undef /\ Sign(c, IssuerKey)
  \/ VerifyCredential

AxisSpec == Init /\ [][AxisNext]_vars

\* the registry with calls in flight
ConcNext ==
  \/ \E d \in DidInputs, doc \in DocInputs : PublishCall(d, doc)
  \/ \E i \in appends : AppendFile(i)
  \/ \E r \in 1..MaxReaders, d \in DidInputs : ResolveCall(r, d)
  \/ \E r \in 1..MaxReaders : ReadFile(r)
  \/ \E r \in 1..MaxReaders : ResolveResume(r)

ConcSpec == Init /\ [][ConcNext]_vars

\* every started write and read completes, and each DID keeps being resolved
ConcFairSpec ==
  /\ ConcSpec
  /\ WF_vars(\E i \in appends : AppendFile(i))
  /\ WF_vars(\E r \in 1..MaxReaders : ReadFile(r))
  /\ WF_vars(\E r \in 1..MaxReaders : ResolveResume(r))
  /\ \A d \in DidInputs : WF_vars(\E r \in 1..MaxReaders : ResolveCall(r, d))

Next ==
  \/ BuilderNext
  \/ RaceNext
  \/ HashNext
  \/ SigNext
  \/ StoreNext
  \/ VerifyNext
  \/ AxisNext
  \/ ConcNext
  \/ CanonNext
  \/ DidNext

Spec == Init /\ [][Next]_vars

(* ------------------------------ properties ---------------------------- *)
\* the call the state is the result of
After(op) == ret.op = op

\* the credential in hand still carries the envelope it was signed with
Enveloped == cred.t = "object" /\ HasKey(cred, "verification")

\* the lines of the log that are records of did
RecordsOf(did) == { i \in 1..Len(log) : Get(log[i], "did") = did }
LastRecordOf(did) == CHOOSE i \in RecordsOf(did) : \A j \in RecordsOf(did) : j <= i

\* C1: after signing, a change of exactly one non-envelope field makes
\* verifySignature with the matching public key return false (and not throw)
C1_SingleFieldChangeFailsVerification ==
  (After("verifySignature") /\ Enveloped /\ edits = 1 /\ ret.key = signedAs.key)
    => ret.out = "false"

\* C2: verifySignature(sign(credential, privateKey), publicKey) returns true
\* for the matching key when no field was changed in between
C2_SignThenVerify ==
  (After("verifySignature") /\ Enveloped /\ edits = 0 /\ ret.key = signedAs.key)
    => ret.out = "true"

C2_Witness ==
  /\ After("verifySignature") /\ Enveloped /\ edits = 0
  /\ ret.key = signedAs.key
  /\ cred = signedAs.cred
  /\ ret.out = "true"

\* C3: with sequential calls through the cache, resolve(did) returns the
\* document of the most recently appended record for did
C3_ResolveReturnsLatestRecord ==
  (After("resolve") /\ RecordsOf(ret.did) # {})
    => /\ ret.out = "return"
       /\ ret.doc = Get(log[LastRecordOf(ret.did)], "document")

\* the scenario of C4 and C16: the credential's DID is published, the
\* credential is approved, has no expiry and well-formed evidence, and
\* carries the envelope it was signed with
WellFormedPublished ==
  /\ Enveloped /\ edits = 0
  /\ RecordsOf(Get(cred, "did")) # {}
  /\ isValidDid(Get(cred, "did"))
  /\ Get(cred, "status") = Str("approved")
  /\ ~HasKey(cred, "expires_at")
  /\ Get(cred, "evidence") = GoodEvidence

PublishedKeyMatches ==
  Get(log[LastRecordOf(Get(cred, "did"))], "document") = DocOf(signedAs.key)

ErrorCodes(errors) == [i \in 1..Len(errors) |-> errors[i].code]

\* C4: a well-formed credential signed with a key that does not match the
\* published one gets valid=false, signatureValid=false, the five other
\* checks true, and exactly one error, SIGNATURE_VERIFICATION_FAILED
C4_WrongKeyReportsSignatureError ==
  (After("verifyCredential") /\ WellFormedPublished /\ ~PublishedKeyMatches)
    => /\ ~ret.valid
       /\ ~ret.checks.signatureValid
       /\ ret.checks.didFormatValid /\ ret.checks.didResolvable
       /\ ret.checks.statusValid /\ ret.checks.timeValid
       /\ ret.checks.evidenceValid
       /\ ErrorCodes(ret.errors) = << "SIGNATURE_VERIFICATION_FAILED" >>

CodeOf(check) ==
  CASE check = "signatureValid" -> "SIGNATURE_VERIFICATION_FAILED"
    [] check = "didFormatValid" -> "INVALID_DID_FORMAT"
    [] check = "didResolvable" -> "DID_NOT_FOUND"
    [] check = "statusValid" -> "CREDENTIAL_INVALID_STATUS"
    [] check = "timeValid" -> "CREDENTIAL_EXPIRED"
    [] check = "evidenceValid" -> "INVALID_EVIDENCE"

EntriesFor(errors, check) == { i \in 1..Len(errors) : errors[i].check = check }

\* C5: errors holds exactly one entry, with the axis's code, for each check
\* that is false and none for a check that is true; it is empty exactly when
\* valid is true
C5_OneErrorPerFailedAxis ==
  After("verifyCredential")
    => /\ \A i \in 1..Len(CheckNames) :
            /\ Cardinality(EntriesFor(ret.errors, CheckNames[i]))
                 = (IF ret.checks[CheckNames[i]] THEN 0 ELSE 1)
            /\ \A e \in EntriesFor(ret.errors, CheckNames[i]) :
                 ret.errors[e].code = CodeOf(CheckNames[i])
       /\ (ret.errors = << >>) <=> ret.valid

\* C6: valid is true if and only if all six checks are true
C6_ValidIsConjunctionOfChecks ==
  After("verifyCredential")
    => (ret.valid <=> /\ ret.checks.signatureValid
                      /\ ret.checks.didFormatValid
                      /\ ret.checks.didResolvable
                      /\ ret.checks.statusValid
                      /\ ret.checks.timeValid
                      /\ ret.checks.evidenceValid)

\* every check but the signature passes, and the result is not valid
C6_Witness ==
  /\ After("verifyCredential")
  /\ ~ret.valid /\ ~ret.checks.signatureValid
  /\ ret.checks.didFormatValid /\ ret.checks.didResolvable
  /\ ret.checks.statusValid /\ ret.checks.timeValid /\ ret.checks.evidenceValid

\* C7: verifyCredential returns a populated result (valid, six checks,
\* credential summary) for every credential and store state and never raises
C7_AlwaysReturnsResult ==
  After("verifyCredential")
    => /\ ~ret.threw
       /\ ret.valid \in BOOLEAN
       /\ DOMAIN ret.checks = { CheckNames[i] : i \in 1..Len(CheckNames) }
       /\ \A i \in 1..Len(CheckNames) : ret.checks[CheckNames[i]] \in BOOLEAN
       /\ DOMAIN ret.credential = {"did", "status", "issuedAt", "source"}

\* the DID resolves, the envelope is missing, and the exception of the
\* signature step ends as an error entry
C7_Witness ==
  /\ After("verifyCredential")
  /\ ~Enveloped
  /\ ret.checks.didResolvable
  /\ ~ret.threw
  /\ EntriesFor(ret.errors, "signatureValid") # {}

C9_LogAppendOnly ==
  [][ /\ Len(log') >= Len(log)
      /\ SubSeq(log', 1, Len(log)) = log
      /\ ret'.op \in {"resolve", "list"} => log' = log ]_vars

\* two records of one DID lie in the log, the older one kept, after a resolve
C9_Witness ==
  /\ After("resolve")
  /\ Len(log) >= 2
  /\ Get(log[1], "did") = Get(log[2], "did")
  /\ Get(log[1], "document") # Get(log[2], "document")

\* C10: resolve(did) for a DID without a record fails with NotFoundError in
\* every store state, appends nothing and leaves no cache entry for did
C10_UnknownDidIsNotFound ==
  (After("resolve") /\ RecordsOf(ret.did) = {})
    => /\ ret.out = "throw"
       /\ ret.error = "DID not found"
       /\ ~LruHas(cache, ret.did)

\* the lines of a sequence of records that are records of did
LinesOf(lines, did) == SelectSeq(lines, LAMBDA line : Get(line, "did") = Str(did))

\* no publish call for did is still waiting for its appendFile
NoneInFlight(did) == \A i \in appends : Get(calls[i], "did") # Str(did)

\* C11: publishes to one DID are serialized: once the calls for a DID have
\* completed, its records lie in the log in the order the calls were made, so
\* the record appended last is that of the last call
C11_SameDidPublishesInCallOrder ==
  \A d \in DidInputs :
    NoneInFlight(d) => LinesOf(log, d) = LinesOf(calls, d)

\* C12: under every interleaving, a resolve(did) ends in NotFoundError or
\* returns a document that was passed whole to a publish call for that DID
C12_ResolveReturnsPublishedDocument ==
  After("resolve")
    => \/ ret.out = "throw" /\ ret.error = "DID not found"
       \/ /\ ret.out = "return"
          /\ \E i \in 1..Len(calls) :
                /\ Get(calls[i], "did") = ret.did
                /\ Get(calls[i], "document") = ret.doc

\* the last resolve of did returned the document of its newest record
FreshRead(did) ==
  /\ After("resolve") /\ ret.did = Str(did) /\ ret.out = "return"
  /\ ret.doc = LatestDocument(Str(did))

\* a record of did is in the log and no publish for did is in flight
Settled(did) == LinesOf(log, did) # << >> /\ NoneInFlight(did)

\* C13: cache staleness is brief: at most one cache hit made while no publish
\* is in flight returns another document than the newest record, and once the
\* publishes for a DID have completed a resolve of it eventually returns the
\* newest document
C13_StalenessIsBrief ==
  /\ [](stale <= 1)
  /\ \A d \in DidInputs : Settled(d) ~> (FreshRead(d) \/ ~Settled(d))

\* two values are the same but for the order of the keys of their objects;
\* array elements are compared position by position
RECURSIVE SameValues(_, _)
SameValues(a, b) ==
  IF a.t = "object" /\ b.t = "object"
  THEN /\ Len(a.kv) = Len(b.kv)
       /\ \A i \in 1..Len(a.kv) :
            /\ HasKey(b, a.kv[i][1])
            /\ SameValues(a.kv[i][2], Get(b, a.kv[i][1]))
  ELSE IF a.t = "array" /\ b.t = "array"
  THEN /\ Len(a.a) = Len(b.a)
       /\ \A i \in 1..Len(a.a) : SameValues(a.a[i], b.a[i])
  ELSE a = b

\* every object inside v lists its keys in ascending lexicographic order
RECURSIVE KeysAscending(_)
KeysAscending(v) ==
  IF v.t = "object"
  THEN /\ \A i \in 1..(Len(v.kv) - 1) : KeyRank(v.kv[i][1]) < KeyRank(v.kv[i + 1][1])
       /\ \A i \in 1..Len(v.kv) : KeysAscending(v.kv[i][2])
  ELSE IF v.t = "array"
  THEN \A i \in 1..Len(v.a) : KeysAscending(v.a[i])
  ELSE TRUE

\* the fields of the credential in hand, the envelope left out
NonEnvelope == Obj(SelectSeq(cred.kv, LAMBDA p : p[1] # "verification"))

\* C14: credentials with equal values and another key order canonicalize to
\* the same text; the keys are emitted in ascending lexicographic order at
\* every nesting level, and arrays keep the order of their elements
C14_CanonicalKeyOrder ==
  After("canonicalize")
    => /\ \A c \in CanonInputs :
            SameValues(c, NonEnvelope) => canonicalizeCredential(c) = ret.out
       /\ KeysAscending(ret.sorted)
       /\ SameValues(ret.sorted, NonEnvelope)
       /\ ret.out = JSONstringify(ret.sorted)

\* C15: canonicalize ignores the verification envelope: the text for a
\* credential with any envelope attached is the text for the credential
\* without it, so the digest recomputed from the enveloped credential is the
\* digest signCredential recorded for the bytes it signed
C15_EnvelopeIgnored ==
  (After("canonicalize") /\ HasKey(cred, "verification"))
    => /\ ret.out = canonicalizeCredential(NonEnvelope)
       /\ (/\ Get(cred, "verification").t = "object"
           /\ HasKey(Get(cred, "verification"), "credentialHash"))
            => Get(Get(cred, "verification"), "credentialHash")
                 = Str(sha256hex(ret.out))

\* a signed credential, its fields since rearranged, is canonicalized
C15_Witness ==
  /\ After("canonicalize")
  /\ cred.t = "object" /\ HasKey(cred, "verification")
  /\ Get(Get(cred, "verification"), "signature").t = "string"
  /\ cred.kv[Len(cred.kv)][1] # "verification"
  /\ ret.out = canonicalizeCredential(NonEnvelope)

\* every record of the credential's DID holds the public key of the key pair
\* the credential was signed with
PublishedWithSigningKey ==
  \A i \in RecordsOf(Get(cred, "did")) :
    Get(log[i], "document") = DocOf(signedAs.key)

\* C16: the DID is published with a document holding public key K, and the
\* credential (that DID, approved, no expires_at, evidence with a non-empty
\* type and a mapping payload) is signed with the private key matching K:
\* verifyCredential returns valid=true, all six checks true and no errors
C16_HappyPath ==
  (After("verifyCredential") /\ WellFormedPublished /\ PublishedWithSigningKey)
    => /\ ret.valid
       /\ \A i \in 1..Len(CheckNames) : ret.checks[CheckNames[i]]
       /\ ret.errors = << >>
       /\ ~ret.threw

C16_Witness ==
  /\ After("verifyCredential") /\ WellFormedPublished /\ PublishedWithSigningKey
  /\ ret.valid /\ ret.checks.signatureValid /\ ret.errors = << >>

\* the input fields of the axes, each with the checks that read it (the
\* signature check reads the DID through the resolved document)
AxisFields ==
  << <<"status", {"statusValid"}>>,
     <<"expires_at", {"timeValid"}>>,
     <<"evidence", {"evidenceValid"}>>,
     <<"did", {"didFormatValid", "didResolvable", "signatureValid"}>> >>

\* two results agree on every check outside the named ones
AgreeBut(checks, checksA, checksB) ==
  \A i \in 1..Len(CheckNames) :
    CheckNames[i] \notin checks => checksA[CheckNames[i]] = checksB[CheckNames[i]]

\* verifyCredential, in the store state and at the time of this step, on the
\* input credential other signed with the issuer's key
ResultFor(other, clock) ==
  verifyCredential(Signed[other, IssuerKey, clock], cache, fileExists, log, now)

\* the step is a verifyCredential call on the credential `given` as signed
VerifiesSigned(given, clock) ==
  /\ ret'.op = "verifyCredential" /\ now' = now /\ cred' = cred
  /\ cred = Signed[given, IssuerKey, clock]

\* C17: the axes do not affect one another. For a verifyCredential call and
\* a second call in the same store state and at the same time on a credential
\* that differs in the input of one axis only (status, expires_at, evidence,
\* or the DID; each signed with the issuer's key), the results agree on every
\* check that does not read that input, so the later axes are evaluated even
\* after an earlier one failed; and a revoked credential gets
\* statusValid=false with a CREDENTIAL_INVALID_STATUS error
C17_AxesIndependent ==
  [][ \A given \in CredInputs, clock \in 0..MaxTime :
        VerifiesSigned(given, clock) =>
          /\ \A other \in CredInputs \ {given}, a \in 1..Len(AxisFields) :
               Without(given, AxisFields[a][1]) = Without(other, AxisFields[a][1])
                 => AgreeBut(AxisFields[a][2], ret'.checks,
                             ResultFor(other, clock).checks)
          /\ Get(given, "status") = Str("revoked")
               => /\ ~ret'.checks.statusValid
                  /\ EntriesFor(ret'.errors, "statusValid") # {}
                  /\ \A e \in EntriesFor(ret'.errors, "statusValid") :
                       ret'.errors[e].code = "CREDENTIAL_INVALID_STATUS"
    ]_vars

\* a revoked credential, otherwise well-formed and published: only the status
\* axis fails
C17_Witness ==
  /\ After("verifyCredential") /\ Enveloped
  /\ Get(cred, "status") = Str("revoked")
  /\ ~ret.checks.statusValid
  /\ ret.checks.signatureValid /\ ret.checks.didFormatValid
  /\ ret.checks.didResolvable /\ ret.checks.timeValid /\ ret.checks.evidenceValid
  /\ ErrorCodes(ret.errors) = << "CREDENTIAL_INVALID_STATUS" >>

\* the step is a verifyCredential call
VerifyStep == ret'.op = "verifyCredential" /\ now' = now /\ cred' = cred

\* the time of the step is not after the instant expires_at names
NotAfterExpiry ==
  \E n \in 0..(MaxTime + 1) : Get(cred, "expires_at") = Str(Iso(n)) /\ now <= n

\* C18: timeValid is true when expires_at is absent, and otherwise true iff
\* the current time <= expires_at; when it is false, the errors hold
\* CREDENTIAL_EXPIRED for the time axis
C18_TimeAxis ==
  [][ VerifyStep =>
        /\ ~HasKey(cred, "expires_at") => ret'.checks.timeValid
        /\ HasKey(cred, "expires_at") => (ret'.checks.timeValid <=> NotAfterExpiry)
        /\ ~ret'.checks.timeValid
             <=> \E i \in 1..Len(ret'.errors) :
                   ret'.errors[i] = Err("timeValid", "CREDENTIAL_EXPIRED")
    ]_vars

\* verified at the very instant of expiry: still valid in time
C18_Witness ==
  /\ After("verifyCredential")
  /\ now = 0
  /\ Get(cred, "expires_at") = Str(Iso(0))
  /\ ret.checks.timeValid

\* C19: evidenceValid is true iff evidence.type is a non-empty string and
\* evidence.payload is a mapping (not absent, null, a scalar or a sequence);
\* otherwise it is false with an INVALID_EVIDENCE error
C19_EvidenceAxis ==
  After("verifyCredential")
    => /\ ret.checks.evidenceValid
            <=> /\ Get(Get(cred, "evidence"), "type").t = "string"
                /\ Get(Get(cred, "evidence"), "type").s # ""
                /\ Get(Get(cred, "evidence"), "payload").t = "object"
       /\ ~ret.checks.evidenceValid
            <=> \E i \in 1..Len(ret.errors) :
                  ret.errors[i] = Err("evidenceValid", "INVALID_EVIDENCE")

\* a UUID of version 4: 8-4-4-4-12 hexadecimal digits, the version digit 4
\* and the variant digit one of 8, 9, a, b
IsUuidV4(cs) ==
  /\ Len(cs) = 36
  /\ \A i \in {9, 14, 19, 24} : cs[i] = "-"
  /\ \A i \in (1..36) \ {9, 14, 19, 24} : cs[i] \in HexDigit
  /\ cs[15] = "4"
  /\ cs[20] \in {"8", "9", "a", "b", "A", "B"}

\* the string is 'did:tw:serviceverified:' followed by a UUID v4, with
\* nothing before or after it
MatchesDidGrammar(value) ==
  /\ value.t = "string"
  /\ \E cs \in DidCharInputs :
       /\ StringOf[cs] = value.s
       /\ Len(cs) = Len(PREFIX_CHARS) + 36
       /\ SubSeq(cs, 1, Len(PREFIX_CHARS)) = PREFIX_CHARS
       /\ IsUuidV4(SubSeq(cs, Len(PREFIX_CHARS) + 1, Len(cs)))

\* C20: isValidDid(value) is true iff value is the string
\* 'did:tw:serviceverified:' followed by a UUID v4 with nothing before or
\* after it; it never throws, and parseDid throws exactly on the inputs
\* isValidDid rejects
C20_DidGrammar ==
  /\ After("isValidDid")
       => /\ ret.out \in BOOLEAN
          /\ ret.out <=> MatchesDidGrammar(ret.value)
          /\ ret.out <=> parseDidOk(ret.value)
  /\ After("parseDid")
       => /\ (ret.out = "throw") <=> ~isValidDid(ret.value)
          /\ (ret.out = "return") <=> MatchesDidGrammar(ret.value)

(* ------------------------------ the builder ---------------------------- *)
\* build() returned a credential
Built == ret.op = "build" /\ ~ret.threw

\* each upper-case letter of the model's ids with its lower-case form
UpperLower ==
  { <<"A", "a">>, <<"B", "b">>, <<"C", "c">>, <<"D", "d">>, <<"E", "e">>,
    <<"F", "f">> }

\* lower is the lower-case form of the characters given
IsLowercaseOf(lower, given) ==
  /\ Len(lower) = Len(given)
  /\ \A i \in 1..Len(given) :
       IF \E p \in UpperLower : p[1] = given[i]
       THEN <<given[i], lower[i]>> \in UpperLower
       ELSE lower[i] = given[i]

\* C21: every credential build() returns has did = 'did:tw:serviceverified:'
\* followed by its id in lower case, whatever with* calls came before; and a
\* builder created from extractUuid(did) of a generateDid() result builds a
\* credential whose did is that result
C21_DidIsPrefixPlusLowercaseId ==
  Built =>
    /\ StartsWith(CharsOf(Get(ret.out, "did").s), PREFIX_CHARS)
    /\ IsLowercaseOf(SubSeq(CharsOf(Get(ret.out, "did").s), Len(PREFIX_CHARS) + 1,
                            Len(CharsOf(Get(ret.out, "did").s))),
                     IdChars(Get(ret.out, "id").s))
    /\ chain[1].of # Undef => Get(ret.out, "did") = chain[1].of

\* a credential built from an upper-case id after three with* calls
C21_Witness ==
  /\ Built
  /\ Get(ret.out, "id") = Str(Concat(UuidUpperChars))
  /\ Len(chain) = 4
  /\ Get(ret.out, "did") = Str(DidA)

\* a call of this name was made on the builder
Called(op) == \E i \in 2..Len(chain) : chain[i].op = op

\* the argument of the most recent call of this name
LastArg(op) ==
  chain[CHOOSE i \in 2..Len(chain) :
          /\ chain[i].op = op
          /\ \A j \in (i + 1)..Len(chain) : chain[j].op # op].arg

\* C22: the with* calls never fail; build() returns a credential iff a source
\* and an evidence have both been set before, and otherwise reports an error
\* result, not a throw, and returns no credential
C22_BuildValidatesAtFinalization ==
  /\ ret.op \in {"withStatus", "withSource", "withEvidence", "withExpiration"}
       => ~ret.threw
  /\ ret.op = "build"
       => /\ ~ret.threw
          /\ ret.out.t = "object" <=> (Called("withSource") /\ Called("withEvidence"))

\* C23: once withEvidence has been called, the builder holds, and build()
\* returns, exactly the evidence object of the most recent withEvidence call,
\* whatever other with* calls were made since
C23_EvidenceLastWriteWins ==
  Called("withEvidence")
    => /\ builder.evidence = LastArg("withEvidence")
       /\ Built => Get(ret.out, "evidence") = LastArg("withEvidence")

\* two different evidence objects were given, then a source, then build()
C23_Witness ==
  /\ Built
  /\ Len(chain) = 4
  /\ chain[2] = [op |-> "withEvidence", arg |-> GoodEvidence]
  /\ chain[3] = [op |-> "withEvidence", arg |-> Soc2Evidence]
  /\ chain[4].op = "withSource"
  /\ Get(ret.out, "evidence") = Soc2Evidence

(* ------------------------- verifyCredential, again --------------------- *)
\* C24: the status axis passes only an approved credential: statusValid is
\* true when status is approved, and false when it is pending, rejected,
\* expired or revoked
C24_StatusApprovedOnly ==
  After("verifyCredential")
    => (ret.checks.statusValid <=> Get(cred, "status") = Str("approved"))

\* C25: the signature check is attempted only when the DID resolved: a
\* signature outcome (signatureValid true, or a SIGNATURE_VERIFICATION_FAILED
\* entry) is seen only with didResolvable true; when resolution fails the
\* call still returns, with didResolvable false and a DID_NOT_FOUND entry,
\* signatureValid false and no SIGNATURE_VERIFICATION_FAILED entry
C25_SignatureOnlyAfterResolution ==
  After("verifyCredential")
    => /\ ret.checks.signatureValid => ret.checks.didResolvable
       /\ EntriesFor(ret.errors, "signatureValid") # {} => ret.checks.didResolvable
       /\ ~ret.checks.didResolvable
            => /\ ~ret.threw
               /\ \E i \in 1..Len(ret.errors) :
                    ret.errors[i] = Err("didResolvable", "DID_NOT_FOUND")
               /\ ~ret.checks.signatureValid
               /\ \A i \in 1..Len(ret.errors) :
                    ret.errors[i].code # "SIGNATURE_VERIFICATION_FAILED"

\* a signed credential whose DID has no record in a registry that holds one
\* for another DID
C25_Witness ==
  /\ After("verifyCredential")
  /\ Enveloped
  /\ Len(log) = 1
  /\ Get(log[1], "did") # Get(cred, "did")
  /\ ~ret.checks.didResolvable
  /\ ErrorCodes(ret.errors) = << "DID_NOT_FOUND" >>

\* the credential with this value as its verification.credentialHash
WithHash(credential, hash) ==
  Set(credential, "verification",
      Set(Get(credential, "verification"), "credentialHash", hash))

\* C26: the embedded credentialHash is advisory: verifySignature returns, for
\* the same key, the same result for the credential in hand and for every
\* credential that differs from it only in verification.credentialHash; the
\* mismatch is logged exactly when the embedded hash is not the digest of the
\* current fields, whatever the result
C26_HashIsAdvisory ==
  (After("verifySignature") /\ Enveloped)
    => /\ \A h \in HashInputs(cred) :
            verifySignature(WithHash(cred, h), ret.key).out = ret.out
       /\ ret.warned
            <=> Get(Get(cred, "verification"), "credentialHash")
                  # Str(sha256hex(canonicalizeCredential(cred)))

\* an untouched credential whose embedded hash was corrupted verifies, with
\* the mismatch logged
C26_Witness ==
  /\ After("verifySignature")
  /\ Enveloped
  /\ edits = 0
  /\ Get(Get(cred, "verification"), "credentialHash") = Str("sha256:corrupted")
  /\ ret.out = "true"
  /\ ret.warned

====
